---- MODULE Spec2Model ----
(***************************************************************************)
(* Model of the terminal dashboard of advent-of-code-2024 (src/src):       *)
(* the catalog loader, the tree navigation state, the task executor, the   *)
(* preview pane and the render loop of run_app.                            *)
(*                                                                         *)
(* Text (String, &str, paths, directory names, subprocess output) is a     *)
(* sequence of one-character strings, so that regex matching, splitting    *)
(* into lines, joining and substring search are computed, not assumed.     *)
(***************************************************************************)
EXTENDS Integers, Sequences, FiniteSets, TLC

VARIABLES
    scan,             \* the entries std::fs::read_dir(".") yields, in its order
    loaded,           \* which load_file_tree built file_tree ("none" before)
    file_tree,        \* TaskFinder.file_tree: Vec<TreeItem>
    opened,           \* TreeState.opened
    selected,         \* TreeState.selected
    last_identifiers, \* TreeState.last_identifiers (set by the last render)
    file_preview,     \* TaskPreview.file_preview
    scroll_offset,    \* TaskPreview.scroll_offset
    total_lines,      \* TaskPreview.total_lines
    scrollbar_state,  \* TaskPreview.scrollbar_state
    error_message,    \* App.error_message: <<>> is None, <<m>> is Some(m)
    log,              \* the lines of error.log
    pc,               \* position of the control flow of main / run_app
    child,            \* the Child handle run_task holds: <<>> or <<c>>
    live,             \* the task subprocesses that exist
    code,             \* the KeyCode of the event this iteration read
    status,           \* the ExitStatus the last wait() returned: <<>> or <<s>>
    captured,         \* the bytes the reader of run_task has taken from the pipe
    hist,             \* the key events read since the start (first MaxHist)
    frame,            \* what the last terminal.draw put on the screen
    result,           \* what run_app returned ("none" while it runs)
    disk,             \* day9/task2 Disk::defragment: the local disk.blocks
    checked_ids,      \* day9/task2 Disk::defragment: the local checked_ids
    defrag_i,         \* day9/task2 Disk::defragment: the local i
    defrag_result,    \* day9/task2: what defragment returned ("none" while it loops)
    puzzle_input,     \* day6/task2: the rows parse_input read
    map,              \* day6/task2 Map.map
    guard_position,   \* day6/task2 Map.position: <<x, y>>
    guard_direction,  \* day6/task2 Map.direction
    loop_obstacle_coords, \* day6/task2 Map.loop_obstacle_coords
    walk_result,      \* day6/task2: what walk_path returned ("none" while it loops)
    register_a,       \* day17/task1 Computer.register_a
    register_b,       \* day17/task1 Computer.register_b
    register_c,       \* day17/task1 Computer.register_c
    program,          \* day17/task1 Computer.program
    ip,               \* day17/task1 Computer.ip
    output,           \* day17/task1 Computer.output
    run_result,       \* day17/task1: what run returned ("none" while it loops)
    warehouse,        \* day15/task1 Map.map: the rows of the Matrix<char>
    robot_position,   \* day15/task1 Map.position: <<row, column>>
    last_direction,   \* day15/task1: the direction of the last move_direction call
    plot_coords,      \* day12/task2 plot_edges: coors, the cells of the plot
    move_direction,   \* day12/task2 plot_edges: the local move_direction
    edge_direction,   \* day12/task2 plot_edges: the local edge_direction
    previous_node,    \* day12/task2 plot_edges: the local previous
    current_node,     \* day12/task2 plot_edges: the local current
    edge_start,       \* day12/task2 plot_edges: the local edge_start
    edges,            \* day12/task2 plot_edges: the local edges
    edges_result      \* day12/task2: "returned" when plot_edges has returned edges

vars == << scan, loaded, file_tree, opened, selected, last_identifiers,
           file_preview, scroll_offset, total_lines, scrollbar_state,
           error_message, log, pc, child, live, code, status, captured,
           hist, frame, result,
           disk, checked_ids, defrag_i, defrag_result,
           puzzle_input, map, guard_position, guard_direction,
           loop_obstacle_coords, walk_result,
           register_a, register_b, register_c, program, ip, output, run_result,
           warehouse, robot_position, last_direction,
           plot_coords, move_direction, edge_direction, previous_node, current_node,
           edge_start, edges, edges_result >>

\* the variables of the puzzle solutions: each solution is a program of its own
day9_vars == << disk, checked_ids, defrag_i, defrag_result >>

day6_vars == << puzzle_input, map, guard_position, guard_direction,
               loop_obstacle_coords, walk_result >>

day17_vars == << register_a, register_b, register_c, program, ip, output, run_result >>

day15_vars == << warehouse, robot_position, last_direction >>

day12_vars == << plot_coords, move_direction, edge_direction, previous_node,
                current_node, edge_start, edges, edges_result >>

puzzle_vars == << day9_vars, day6_vars, day17_vars, day15_vars, day12_vars >>

\* no defragmentation is running
Day9Idle ==
    /\ disk = <<>>
    /\ checked_ids = <<>>
    /\ defrag_i = 0
    /\ defrag_result = "idle"

\* no guard is walking
Day6Idle ==
    /\ puzzle_input = <<>>
    /\ map = <<>>
    /\ guard_position = <<0, 0>>
    /\ guard_direction = "^"
    /\ loop_obstacle_coords = <<>>
    /\ walk_result = "idle"

\* no computer is running
Day17Idle ==
    /\ register_a = 0
    /\ register_b = 0
    /\ register_c = 0
    /\ program = <<>>
    /\ ip = 0
    /\ output = <<>>
    /\ run_result = "idle"

\* no robot is moving
Day15Idle ==
    /\ warehouse = <<>>
    /\ robot_position = <<0, 0>>
    /\ last_direction = <<0, 0>>

\* no plot is walked around
Day12Idle ==
    /\ plot_coords = {}
    /\ move_direction = "Right"
    /\ edge_direction = "Up"
    /\ previous_node = <<0, 0>>
    /\ current_node = <<0, 0>>
    /\ edge_start = <<0, 0>>
    /\ edges = <<>>
    /\ edges_result = "idle"

PuzzlesIdle == Day9Idle /\ Day6Idle /\ Day17Idle /\ Day15Idle /\ Day12Idle

----------------------------------------------------------------------------
(* Bounds of the model *)

\* longest directory scan
MaxEntries == 3
\* longest subprocess output drawn character by character
MaxShort == 1
\* most lines of a long subprocess output
MaxLines == 12
\* most task runs in one behaviour
MaxRuns == 2
\* longest recorded key history
MaxHist == 3

----------------------------------------------------------------------------
(* Text helpers *)

Digits == {"0", "1", "2", "3", "4", "5", "6", "7", "8", "9"}

DigitVal(c) ==
    CASE c = "0" -> 0 [] c = "1" -> 1 [] c = "2" -> 2 [] c = "3" -> 3
      [] c = "4" -> 4 [] c = "5" -> 5 [] c = "6" -> 6 [] c = "7" -> 7
      [] c = "8" -> 8 [] c = "9" -> 9

NL == "\n"
CR == "\r"
\* a byte that is not valid UTF-8
BAD == "\\xFF"

Day == <<"d", "a", "y">>
Task == <<"t", "a", "s", "k">>
task1 == Task \o <<"1">>
task2 == Task \o <<"2">>

\* str::starts_with
StartsWith(s, p) == Len(s) >= Len(p) /\ SubSeq(s, 1, Len(p)) = p

\* str::contains
Contains(s, p) ==
    \E i \in 1..(Len(s) + 1) :
        i + Len(p) - 1 <= Len(s) /\ SubSeq(s, i, i + Len(p) - 1) = p

\* [String]::join(sep)
RECURSIVE Join(_, _)
Join(parts, sep) ==
    IF parts = <<>> THEN <<>>
    ELSE IF Len(parts) = 1 THEN parts[1]
    ELSE parts[1] \o sep \o Join(Tail(parts), sep)

\* usize::saturating_sub
SaturatingSub(a, b) == IF a > b THEN a - b ELSE 0

Min(a, b) == IF a < b THEN a ELSE b

----------------------------------------------------------------------------
(* The catalog loader *)

\* u32::MAX, 4294967295, as decimal digits
u32_MAX == <<"4", "2", "9", "4", "9", "6", "7", "2", "9", "5">>

\* the regex without its \d+$ part
IsDayName_Prefix(name) == StartsWith(name, Day)

\* Regex::new(r"^day\d+$").is_match(name)
IsDayName(name) ==
    /\ Len(name) > Len(Day)
    /\ StartsWith(name, Day)
    /\ \A i \in (Len(Day) + 1)..Len(name) : name[i] \in Digits

\* str::trim_start_matches("day"): every leading repetition is removed
RECURSIVE TrimStartMatches(_, _)
TrimStartMatches(s, p) ==
    IF p # <<>> /\ StartsWith(s, p)
    THEN TrimStartMatches(SubSeq(s, Len(p) + 1, Len(s)), p)
    ELSE s

\* a decimal numeral without its leading zeros (zero is the empty numeral)
RECURSIVE StripZeros(_)
StripZeros(ds) ==
    IF ds # <<>> /\ ds[1] = "0" THEN StripZeros(Tail(ds)) ELSE ds

\* a < b for numerals of the same length
RECURSIVE LexLess(_, _)
LexLess(a, b) ==
    IF a = <<>> THEN FALSE
    ELSE IF a[1] # b[1] THEN DigitVal(a[1]) < DigitVal(b[1])
    ELSE LexLess(Tail(a), Tail(b))

\* a < b for numerals without leading zeros
NumLess(a, b) ==
    \/ Len(a) < Len(b)
    \/ Len(a) = Len(b) /\ LexLess(a, b)

ParseErr == <<"Err">>

\* str::parse::<u32>: Err for no digit, a non-digit or a number over u32::MAX
\* (a leading '+' is accepted by Rust but cannot follow "day" in a matched
\* name); Ok(n) is the numeral of n
ParseU32(s) ==
    IF s = <<>> \/ (\E i \in 1..Len(s) : s[i] \notin Digits) THEN ParseErr
    ELSE IF NumLess(u32_MAX, StripZeros(s)) THEN ParseErr
    ELSE StripZeros(s)

\* the sort key of taskfinder.rs: the number after "day"
DayNumber(name) == ParseU32(TrimStartMatches(name, Day))

\* add_task_items: task1 then task2, each only when it is a directory
add_task_items(entry) ==
    (IF task1 \in entry.tasks THEN <<task1>> ELSE <<>>)
    \o (IF task2 \in entry.tasks THEN <<task2>> ELSE <<>>)

\* TreeItem::new(dir_name, dir_name, vec![]) followed by add_task_items
DirItem(entry) ==
    [identifier |-> entry.name, children |-> add_task_items(entry)]

\* a loader that skips the day directories without a task directory
IsDayDir_WithTask(entry) ==
    entry.is_dir /\ IsDayName(entry.name) /\ entry.tasks # {}

\* the filter of both loaders: a directory whose name matches the regex
IsDayDir(entry) == entry.is_dir /\ IsDayName(entry.name)

\* App::load_file_tree (main.rs): the items in the order of the scan
RECURSIVE App_load_file_tree(_)
App_load_file_tree(paths) ==
    IF paths = <<>> THEN <<>>
    ELSE (IF IsDayDir(paths[1]) THEN <<DirItem(paths[1])>> ELSE <<>>)
         \o App_load_file_tree(Tail(paths))

\* the filter chain of TaskFinder::load_file_tree (taskfinder.rs)
RECURSIVE FilteredPaths(_)
FilteredPaths(paths) ==
    IF paths = <<>> THEN <<>>
    ELSE (IF IsDayDir(paths[1]) THEN <<paths[1]>> ELSE <<>>)
         \o FilteredPaths(Tail(paths))

\* slice::sort_by is stable: an entry goes after every entry whose key is
\* not greater
RECURSIVE InsertByDay(_, _)
InsertByDay(e, sorted) ==
    IF sorted = <<>> THEN <<e>>
    ELSE IF ~NumLess(DayNumber(e.name), DayNumber(sorted[1].name))
         THEN <<sorted[1]>> \o InsertByDay(e, Tail(sorted))
         ELSE <<e>> \o sorted

RECURSIVE SortByDay(_)
SortByDay(paths) ==
    IF paths = <<>> THEN <<>>
    ELSE InsertByDay(paths[Len(paths)], SortByDay(SubSeq(paths, 1, Len(paths) - 1)))

\* parse::<u32>().unwrap() in the comparator panics on a number over u32
SortPanics(paths) ==
    /\ Len(FilteredPaths(paths)) > 1
    /\ \E i \in 1..Len(FilteredPaths(paths)) :
           DayNumber(FilteredPaths(paths)[i].name) = ParseErr

\* TaskFinder::load_file_tree (taskfinder.rs): filter, sort, build
TaskFinder_load_file_tree(paths) ==
    LET sorted == SortByDay(FilteredPaths(paths))
    IN  [i \in 1..Len(sorted) |-> DirItem(sorted[i])]

----------------------------------------------------------------------------
(* The tree navigation state (tui_tree_widget::TreeState as run_app and    *)
(* TaskFinder::new use it)                                                  *)

\* TaskFinder::open_all_day_tasks: open(vec![identifier]) for every item
open_all_day_tasks(items) == { <<items[i].identifier>> : i \in 1..Len(items) }

\* the identifiers a render leaves in last_identifiers: every item, and the
\* children of an item right after it when the item is opened
RECURSIVE Flatten(_, _)
Flatten(items, op) ==
    IF items = <<>> THEN <<>>
    ELSE LET it == items[1]
         IN  << <<it.identifier>> >>
             \o (IF <<it.identifier>> \in op
                 THEN [j \in 1..Len(it.children) |-> <<it.identifier, it.children[j]>>]
                 ELSE <<>>)
             \o Flatten(Tail(items), op)

\* Iterator::position, 0 for None and index + 1 otherwise
Position(identifiers, current) ==
    IF \E i \in 1..Len(identifiers) : identifiers[i] = current
    THEN CHOOSE i \in 1..Len(identifiers) :
             /\ identifiers[i] = current
             /\ \A j \in 1..(i - 1) : identifiers[j] # current
    ELSE 0

\* identifiers.get(index).cloned().unwrap_or_default(), index from 0
GetOrDefault(identifiers, index) ==
    IF index + 1 <= Len(identifiers) THEN identifiers[index + 1] ELSE <<>>

\* TreeState::select_first: the first identifier of the last render
select_first(identifiers) == GetOrDefault(identifiers, 0)

\* TreeState::key_down: select_relative(|c| c.map_or(0, |c| c + 1))
key_down(identifiers, current) ==
    LET p == Position(identifiers, current)
        wanted == IF p = 0 THEN 0 ELSE p
    IN  GetOrDefault(identifiers, Min(wanted, SaturatingSub(Len(identifiers), 1)))

\* TreeState::key_up: select_relative(|c| c.map_or(usize::MAX, |c| c.saturating_sub(1)))
key_up(identifiers, current) ==
    LET p == Position(identifiers, current)
        last == SaturatingSub(Len(identifiers), 1)
        wanted == IF p = 0 THEN last ELSE SaturatingSub(p - 1, 1)
    IN  GetOrDefault(identifiers, Min(wanted, last))

\* TreeState::key_right: open(selected), nothing when nothing is selected
key_right(op, current) == IF current = <<>> THEN op ELSE op \cup {current}

\* TreeState::key_left: close the selected node, or when it is not open
\* select its parent
key_left_opened(op, current) == op \ {current}

key_left_selected(op, current) ==
    IF current \in op \/ current = <<>> THEN current
    ELSE SubSeq(current, 1, Len(current) - 1)

----------------------------------------------------------------------------
(* The preview pane *)

\* the step of PageUp and PageDown
ScrollStep == 10
\* the lines render keeps above the offset
RenderBack == 10

InitialPreview ==
    << "P", "r", "e", "s", "s", " ", "E", "n", "t", "e", "r", " ", "t", "o",
       " ", "e", "x", "e", "c", "u", "t", "e", " ", "a", " ", "t", "a", "s",
       "k" >>

\* ScrollbarState::new(content_length).position(position)
ScrollbarState(content_length, position) ==
    [content_length |-> content_length, position |-> position]

\* the KeyCode::PageUp arm
PageUpOffset(offset) ==
    IF offset > ScrollStep THEN offset - ScrollStep ELSE 0

\* PageDown without the clamp to total_lines
PageDownOffset_NoClamp(offset, total) == offset + ScrollStep

\* the KeyCode::PageDown arm
PageDownOffset(offset, total) ==
    IF offset + ScrollStep < total THEN offset + ScrollStep ELSE total

\* Paragraph::scroll((scroll_offset.saturating_sub(10), 0)) in render
RenderScroll(offset) == SaturatingSub(offset, RenderBack)

----------------------------------------------------------------------------
(* The task executor *)

CurrentDir == <<"/", "c", "w", "d">>
Slash == <<"/">>

\* Path::join: an absolute argument replaces the base
PathJoin(base, path) ==
    IF StartsWith(path, Slash) THEN path ELSE base \o Slash \o path

\* file_tree_state.selected().join("/")
FilePath(current) == Join(current, Slash)

\* an Enter arm that runs whatever is selected
IsTaskPath_Any(file_path) == file_path # <<>>

\* the test of the Enter arm: file_path.contains("task")
IsTaskPath(file_path) == Contains(file_path, Task)

\* run_task without file_preview.clear()
ClearedPreview_Kept(preview) == preview

\* what run_task does to the preview text before it spawns
ClearedPreview(preview) == <<>>

\* index of the first line break of a non-empty text, or its length
FirstBreak(text) ==
    IF \E i \in 1..Len(text) : text[i] = NL
    THEN CHOOSE i \in 1..Len(text) :
             text[i] = NL /\ \A j \in 1..(i - 1) : text[j] # NL
    ELSE Len(text)

\* the line without its "\n" and without a "\r" before that "\n"
StripBreak(raw) ==
    IF raw # <<>> /\ raw[Len(raw)] = NL
    THEN LET body == SubSeq(raw, 1, Len(raw) - 1)
         IN  IF body # <<>> /\ body[Len(body)] = CR
             THEN SubSeq(body, 1, Len(body) - 1)
             ELSE body
    ELSE raw

\* Lines::next_line on the output from position pos: None at the end of the
\* stream, Err when the bytes up to the line break are not UTF-8, else the line
NextLine(out, pos) ==
    LET rest == SubSeq(out, pos + 1, Len(out))
    IN  IF rest = <<>> THEN [kind |-> "None", line |-> <<>>, read |-> 0]
        ELSE LET n == FirstBreak(rest)
                 raw == SubSeq(rest, 1, n)
             IN  IF \E i \in 1..n : raw[i] = BAD
                 THEN [kind |-> "Err", line |-> <<>>, read |-> n]
                 ELSE [kind |-> "Line", line |-> StripBreak(raw), read |-> n]

\* the loop body without push('\n')
PushLine_NoBreak(preview, line) == preview \o line

\* the body of the while loop: push_str(&line); push('\n')
PushLine(preview, line) == preview \o line \o <<NL>>

\* the scrollbar state the loop body stores
LoopScrollbar(total, offset) == ScrollbarState(total, offset)

ReadErrorMessage == "Failed to run task: stream did not contain valid UTF-8"
WaitErrorMessage == "Failed to run task: wait failed"
TerminalErrorLine == <<"i", "o", ":", ":", "E", "r", "r", "o", "r">>

ExitStatuses == {0, 1}

----------------------------------------------------------------------------
(* The inputs *)

QuitKeys == {"q", "Esc"}
DownKeys == {"Down", "s"}
UpKeys == {"Up", "w"}
RightKeys == {"Right", "d"}
LeftKeys == {"Left", "a"}
OtherKeys == {"x"}

OutChars == {"a", NL, CR, BAD}

RECURSIVE StringsUpTo(_)
StringsUpTo(n) ==
    IF n = 0 THEN {<<>>}
    ELSE LET shorter == StringsUpTo(n - 1)
         IN  shorter \cup { Append(t, c) : t \in shorter, c \in OutChars }

RECURSIVE Lines(_)
Lines(n) == IF n = 0 THEN <<>> ELSE <<"a", NL>> \o Lines(n - 1)

\* outputs of a task subprocess: every short text, and texts of more lines
\* than one scroll step
ShortOutputs == StringsUpTo(MaxShort)
LongOutputs == { Lines(n) : n \in (ScrollStep + 1)..MaxLines }
SampleOutputs ==
    { <<"a", NL>>, <<"a", NL, BAD>>, <<"a", CR, NL>>, <<"a", NL, "a">> }
Outputs == ShortOutputs \cup LongOutputs \cup SampleOutputs
NavOutputs == { <<"a", NL>>, <<BAD>> }

Entry(name, is_dir, tasks) == [name |-> name, is_dir |-> is_dir, tasks |-> tasks]

Overflow == <<"...">>
RecordKey(h, k) ==
    IF h = Overflow THEN h
    ELSE IF Len(h) < MaxHist THEN Append(h, k) ELSE Overflow

----------------------------------------------------------------------------
(* The directory scans *)

DayNames ==
    { Day \o <<"1">>, Day \o <<"9">>, Day \o <<"1", "0">>, Day \o <<"0", "1">> }
OtherNames ==
    { Day, Day \o <<"1", "x">>, <<"x">> \o Day \o <<"1">>, <<"D", "a", "y", "1">> }
TaskSets == { {}, {task2}, {task1, task2} }

\* what a directory can hold: directories named like a day with any of the
\* task sets, directories of other names, and a plain file named like a day
Entries ==
    { Entry(n, TRUE, t) : n \in DayNames, t \in TaskSets }
    \cup { Entry(n, TRUE, {task1, task2}) : n \in OtherNames }
    \cup { Entry(Day \o <<"9">>, FALSE, {}) }

\* read_dir yields each entry once, in an order the file system chooses
RECURSIVE ScansUpTo(_)
ScansUpTo(n) ==
    IF n = 0 THEN {<<>>}
    ELSE LET shorter == ScansUpTo(n - 1)
         IN  shorter \cup
             { Append(sc, e) : sc \in { x \in shorter : Len(x) = n - 1 },
                               e \in Entries } 

DistinctNames(sc) ==
    \A i, j \in 1..Len(sc) : sc[i].name = sc[j].name => i = j

Scans == { sc \in ScansUpTo(MaxEntries) : DistinctNames(sc) }

\* the scans the dashboard is started on
Day1Dir == Entry(Day \o <<"1">>, TRUE, {task1, task2})
Day2Dir == Entry(Day \o <<"2">>, TRUE, {task1})
Day9Dir == Entry(Day \o <<"9">>, TRUE, {task1})
Day10Dir == Entry(Day \o <<"1", "0">>, TRUE, {})
DashScans == { <<Day10Dir, Day9Dir>> }
NavScans == { <<Day1Dir, Day2Dir>> }

----------------------------------------------------------------------------
(* The state after App::new, and before the scan for the loaders alone *)

InitApp(scans) ==
    /\ PuzzlesIdle
    /\ scan \in scans
    /\ loaded = "App"
    /\ file_tree = App_load_file_tree(scan)
    /\ opened = open_all_day_tasks(file_tree)
    /\ last_identifiers = <<>>
    /\ selected = select_first(last_identifiers)
    /\ file_preview = InitialPreview
    /\ scroll_offset = 0
    /\ total_lines = 0
    /\ scrollbar_state = ScrollbarState(0, 0)
    /\ error_message = <<>>
    /\ log = <<>>
    /\ pc = "draw"
    /\ child = <<>>
    /\ live = 0
    /\ code = "none"
    /\ status = <<>>
    /\ captured = <<>>
    /\ hist = <<>>
    /\ frame = <<>>
    /\ result = "none"

Init == InitApp(DashScans)

InitNav == InitApp(NavScans)

InitLoad ==
    /\ PuzzlesIdle
    /\ scan \in Scans
    /\ loaded = "none"
    /\ file_tree = <<>>
    /\ opened = {}
    /\ last_identifiers = <<>>
    /\ selected = <<>>
    /\ file_preview = InitialPreview
    /\ scroll_offset = 0
    /\ total_lines = 0
    /\ scrollbar_state = ScrollbarState(0, 0)
    /\ error_message = <<>>
    /\ log = <<>>
    /\ pc = "load"
    /\ child = <<>>
    /\ live = 0
    /\ code = "none"
    /\ status = <<>>
    /\ captured = <<>>
    /\ hist = <<>>
    /\ frame = <<>>
    /\ result = "none"

dash_vars == << opened, selected, last_identifiers, file_preview, scroll_offset,
                total_lines, scrollbar_state, error_message, log, child, live,
                code, status, captured, hist, frame, result >>

\* App::load_file_tree of main.rs
LoadApp ==
    /\ pc = "load"
    /\ file_tree' = App_load_file_tree(scan)
    /\ loaded' = "App"
    /\ pc' = "loaded"
    /\ UNCHANGED << puzzle_vars, scan, dash_vars >>

\* TaskFinder::load_file_tree of taskfinder.rs
LoadTaskFinder ==
    /\ pc = "load"
    /\ IF SortPanics(scan)
       THEN /\ pc' = "panicked"
            /\ UNCHANGED << file_tree, loaded >>
       ELSE /\ file_tree' = TaskFinder_load_file_tree(scan)
            /\ loaded' = "TaskFinder"
            /\ pc' = "loaded"
    /\ UNCHANGED << puzzle_vars, scan, dash_vars >>

NextLoad == LoadApp \/ LoadTaskFinder

SpecLoad == InitLoad /\ [][NextLoad]_vars

----------------------------------------------------------------------------
(* run_app: one iteration draws a frame, reads one event and handles it *)

\* terminal.draw: the tree render stores the visible identifiers, the preview
\* is scrolled, and the error modal is drawn over both when a message is set
Draw ==
    /\ pc = "draw"
    /\ last_identifiers' = Flatten(file_tree, opened)
    /\ frame' = << [modal |-> error_message, scroll |-> RenderScroll(scroll_offset)] >>
    /\ code' = "none"
    /\ pc' = "event"
    /\ UNCHANGED << puzzle_vars, scan, loaded, file_tree, opened, selected, file_preview,
                    scroll_offset, total_lines, scrollbar_state, error_message,
                    log, child, live, status, captured, hist, result >>

\* event::read() returned the key k
ReadKey(k) ==
    /\ pc = "event"
    /\ code' = k
    /\ hist' = RecordKey(hist, k)

\* an event that is no key event (mouse capture is enabled): next iteration
NonKeyEvent ==
    /\ pc = "event"
    /\ code' = "Mouse"
    /\ pc' = "draw"
    /\ UNCHANGED << puzzle_vars, scan, loaded, file_tree, opened, selected, last_identifiers,
                    file_preview, scroll_offset, total_lines, scrollbar_state,
                    error_message, log, child, live, status, captured, hist, frame, result >>

Quit ==
    /\ \E k \in QuitKeys : ReadKey(k)
    /\ pc' = "done"
    /\ result' = "Ok"
    /\ UNCHANGED << puzzle_vars, scan, loaded, file_tree, opened, selected, last_identifiers,
                    file_preview, scroll_offset, total_lines, scrollbar_state,
                    error_message, log, child, live, status, captured, frame >>

KeyDown ==
    /\ \E k \in DownKeys : ReadKey(k)
    /\ selected' = key_down(last_identifiers, selected)
    /\ pc' = "draw"
    /\ UNCHANGED << puzzle_vars, scan, loaded, file_tree, opened, last_identifiers,
                    file_preview, scroll_offset, total_lines, scrollbar_state,
                    error_message, log, child, live, status, captured, frame, result >>

KeyUp ==
    /\ \E k \in UpKeys : ReadKey(k)
    /\ selected' = key_up(last_identifiers, selected)
    /\ pc' = "draw"
    /\ UNCHANGED << puzzle_vars, scan, loaded, file_tree, opened, last_identifiers,
                    file_preview, scroll_offset, total_lines, scrollbar_state,
                    error_message, log, child, live, status, captured, frame, result >>

KeyRight ==
    /\ \E k \in RightKeys : ReadKey(k)
    /\ opened' = key_right(opened, selected)
    /\ pc' = "draw"
    /\ UNCHANGED << puzzle_vars, scan, loaded, file_tree, selected, last_identifiers,
                    file_preview, scroll_offset, total_lines, scrollbar_state,
                    error_message, log, child, live, status, captured, frame, result >>

KeyLeft ==
    /\ \E k \in LeftKeys : ReadKey(k)
    /\ opened' = key_left_opened(opened, selected)
    /\ selected' = key_left_selected(opened, selected)
    /\ pc' = "draw"
    /\ UNCHANGED << puzzle_vars, scan, loaded, file_tree, last_identifiers,
                    file_preview, scroll_offset, total_lines, scrollbar_state,
                    error_message, log, child, live, status, captured, frame, result >>

PageUp ==
    /\ ReadKey("PageUp")
    /\ scroll_offset' = PageUpOffset(scroll_offset)
    /\ scrollbar_state' = ScrollbarState(total_lines, scroll_offset')
    /\ pc' = "draw"
    /\ UNCHANGED << puzzle_vars, scan, loaded, file_tree, opened, selected, last_identifiers,
                    file_preview, total_lines, error_message, log, child, live,
                    status, captured, frame, result >>

PageDown ==
    /\ ReadKey("PageDown")
    /\ scroll_offset' = PageDownOffset(scroll_offset, total_lines)
    /\ scrollbar_state' = ScrollbarState(total_lines, scroll_offset')
    /\ pc' = "draw"
    /\ UNCHANGED << puzzle_vars, scan, loaded, file_tree, opened, selected, last_identifiers,
                    file_preview, total_lines, error_message, log, child, live,
                    status, captured, frame, result >>

OtherKey ==
    /\ \E k \in OtherKeys : ReadKey(k)
    /\ pc' = "draw"
    /\ UNCHANGED << puzzle_vars, scan, loaded, file_tree, opened, selected, last_identifiers,
                    file_preview, scroll_offset, total_lines, scrollbar_state,
                    error_message, log, child, live, status, captured, frame, result >>

\* what the Enter arm does after it has cleared a shown error message:
\* return Ok(()) ends the loop
AfterDismiss == "done"

\* Enter while an error message is set
EnterDismiss ==
    /\ ReadKey("Enter")
    /\ error_message # <<>>
    /\ error_message' = <<>>
    /\ pc' = AfterDismiss
    /\ result' = IF AfterDismiss = "done" THEN "Ok" ELSE result
    /\ UNCHANGED << puzzle_vars, scan, loaded, file_tree, opened, selected, last_identifiers,
                    file_preview, scroll_offset, total_lines, scrollbar_state,
                    log, child, live, status, captured, frame >>

\* Enter on a selection whose path does not contain "task"
EnterNoTask ==
    /\ ReadKey("Enter")
    /\ error_message = <<>>
    /\ ~IsTaskPath(FilePath(selected))
    /\ pc' = "draw"
    /\ UNCHANGED << puzzle_vars, scan, loaded, file_tree, opened, selected, last_identifiers,
                    file_preview, scroll_offset, total_lines, scrollbar_state,
                    error_message, log, child, live, status, captured, frame, result >>

\* run_task up to the spawn: the path is logged, the preview is reset
RunTaskStart ==
    /\ ReadKey("Enter")
    /\ error_message = <<>>
    /\ IsTaskPath(FilePath(selected))
    /\ Len(log) < MaxRuns
    /\ log' = Append(log, PathJoin(CurrentDir, FilePath(selected)))
    /\ file_preview' = ClearedPreview(file_preview)
    /\ scroll_offset' = 0
    /\ total_lines' = 0
    /\ status' = <<>>
    /\ captured' = <<>>

\* Enter on a task: Command::spawn succeeds and the child writes out
EnterRun(outs) ==
    /\ RunTaskStart
    /\ \E out \in outs :
           child' = << [cwd |-> PathJoin(CurrentDir, FilePath(selected)),
                        out |-> out, pos |-> 0] >>
    /\ live' = live + 1
    /\ pc' = "running"
    /\ UNCHANGED << puzzle_vars, scan, loaded, file_tree, opened, selected, last_identifiers,
                    scrollbar_state, error_message, frame, result >>

\* Enter on a task: Command::spawn fails and expect() panics
EnterSpawnFails ==
    /\ RunTaskStart
    /\ pc' = "panicked"
    /\ UNCHANGED << puzzle_vars, scan, loaded, file_tree, opened, selected, last_identifiers,
                    scrollbar_state, error_message, child, live, frame, result >>

\* one turn of the while loop of run_task: a line was read
ReadLine ==
    /\ pc = "running"
    /\ LET c == child[1]
           nl == NextLine(c.out, c.pos)
       IN  /\ nl.kind = "Line"
           /\ file_preview' = PushLine(file_preview, nl.line)
           /\ total_lines' = total_lines + 1
           /\ scrollbar_state' = LoopScrollbar(total_lines', scroll_offset)
           /\ child' = << [c EXCEPT !.pos = c.pos + nl.read] >>
           /\ captured' = captured \o SubSeq(c.out, c.pos + 1, c.pos + nl.read)
    /\ UNCHANGED << puzzle_vars, scan, loaded, file_tree, opened, selected, last_identifiers,
                    scroll_offset, error_message, log, pc, live, code, status,
                    hist, frame, result >>

\* next_line()? returns the error: run_task drops the child without waiting
\* for it (kill_on_drop is not set) and run_app sets the error message
ReadError ==
    /\ pc = "running"
    /\ NextLine(child[1].out, child[1].pos).kind = "Err"
    /\ captured' = captured \o SubSeq(child[1].out, child[1].pos + 1,
                    child[1].pos + NextLine(child[1].out, child[1].pos).read)
    /\ error_message' = << ReadErrorMessage >>
    /\ child' = <<>>
    /\ pc' = "draw"
    /\ UNCHANGED << puzzle_vars, scan, loaded, file_tree, opened, selected, last_identifiers,
                    file_preview, scroll_offset, total_lines, scrollbar_state,
                    log, live, code, status, hist, frame, result >>

\* what run_task makes of the ExitStatus that wait() returned: Ok(_) => Ok(())
StatusError(s) == <<>>

\* the stream ended and command.wait() returned an exit status
WaitOk ==
    /\ pc = "running"
    /\ NextLine(child[1].out, child[1].pos).kind = "None"
    /\ \E s \in ExitStatuses :
           /\ status' = <<s>>
           /\ error_message' = StatusError(s)
    /\ child' = <<>>
    /\ live' = live - 1
    /\ pc' = "draw"
    /\ UNCHANGED << puzzle_vars, scan, loaded, file_tree, opened, selected, last_identifiers,
                    file_preview, scroll_offset, total_lines, scrollbar_state,
                    log, code, captured, hist, frame, result >>

\* the stream ended and command.wait() returned an error (the child cannot
\* be waited for: it is counted as gone); run_task sets the error message and
\* run_app sets it again
WaitErr ==
    /\ pc = "running"
    /\ NextLine(child[1].out, child[1].pos).kind = "None"
    /\ error_message' = << WaitErrorMessage >>
    /\ child' = <<>>
    /\ live' = live - 1
    /\ pc' = "draw"
    /\ UNCHANGED << puzzle_vars, scan, loaded, file_tree, opened, selected, last_identifiers,
                    file_preview, scroll_offset, total_lines, scrollbar_state,
                    log, code, status, captured, hist, frame, result >>

\* a subprocess that run_task no longer holds ends by itself
OrphanExit ==
    /\ live > Len(child)
    /\ live' = live - 1
    /\ UNCHANGED << puzzle_vars, scan, loaded, file_tree, opened, selected, last_identifiers,
                    file_preview, scroll_offset, total_lines, scrollbar_state,
                    error_message, log, pc, child, code, status, captured, hist, frame,
                    result >>

\* terminal.draw or event::read fails: run_app returns the error and main
\* appends it to the log
TerminalError ==
    /\ pc \in {"draw", "event"}
    /\ result' = "Err"
    /\ log' = Append(log, TerminalErrorLine)
    /\ pc' = "done"
    /\ UNCHANGED << puzzle_vars, scan, loaded, file_tree, opened, selected, last_identifiers,
                    file_preview, scroll_offset, total_lines, scrollbar_state,
                    error_message, child, live, code, status, captured, hist, frame >>

Next ==
    \/ Draw \/ Quit \/ KeyDown \/ KeyUp \/ KeyRight \/ KeyLeft
    \/ PageUp \/ PageDown \/ OtherKey \/ NonKeyEvent
    \/ EnterDismiss \/ EnterNoTask \/ EnterSpawnFails \/ EnterRun(Outputs)
    \/ ReadLine \/ ReadError \/ WaitOk \/ WaitErr \/ OrphanExit
    \/ TerminalError

NextNav ==
    \/ Draw \/ Quit \/ KeyDown \/ KeyUp \/ KeyRight \/ KeyLeft
    \/ PageUp \/ PageDown \/ OtherKey \/ NonKeyEvent
    \/ EnterDismiss \/ EnterNoTask \/ EnterSpawnFails \/ EnterRun(NavOutputs)
    \/ ReadLine \/ ReadError \/ WaitOk \/ WaitErr \/ OrphanExit
    \/ TerminalError

Spec == Init /\ [][Next]_vars

SpecNav == InitNav /\ [][NextNav]_vars

----------------------------------------------------------------------------
(* Helpers of the properties *)

\* the number a day name carries
RECURSIVE NumeralValue(_, _)
NumeralValue(ds, acc) ==
    IF ds = <<>> THEN acc ELSE NumeralValue(Tail(ds), acc * 10 + DigitVal(ds[1]))

DayValue(name) == NumeralValue(SubSeq(name, Len(Day) + 1, Len(name)), 0)

\* a text without its line breaks and carriage returns
RECURSIVE Printable(_)
Printable(text) ==
    IF text = <<>> THEN <<>>
    ELSE (IF text[1] \in {NL, CR} THEN <<>> ELSE <<text[1]>>)
         \o Printable(Tail(text))

IsPrefix(a, b) == Len(a) <= Len(b) /\ SubSeq(b, 1, Len(a)) = a

\* the selected node is a day node of the catalog that has no children
ChildlessDaySelected ==
    /\ Len(selected) = 1
    /\ \E i \in 1..Len(file_tree) :
           /\ file_tree[i].identifier = selected[1]
           /\ file_tree[i].children = <<>>

\* the entries of the scan that are day directories without task directories
ChildlessDayDirs ==
    { scan[i] : i \in { j \in 1..Len(scan) :
                          IsDayName(scan[j].name) /\ scan[j].is_dir
                          /\ scan[j].tasks = {} } }

HasNode(name) == \E i \in 1..Len(file_tree) : file_tree[i].identifier = name

----------------------------------------------------------------------------
(* The properties *)

\* C1: pressing Enter while the error modal is shown clears the error message
\* and the loop goes on to the next frame; the loop returns Ok only on q or Esc
C1_EnterDismissKeepsRunning ==
    /\ [][(pc = "event" /\ error_message # <<>> /\ code' = "Enter")
              => (error_message' = <<>> /\ pc' = "draw")]_vars
    /\ [][(pc = "event" /\ pc' = "done" /\ result' = "Ok")
              => code' \in QuitKeys]_vars

\* C2: when the subprocess of a run ended with a failure status, the run
\* leaves an error message set and the loop goes on to the next frame
C2_FailureStatusSetsError ==
    (pc = "draw" /\ code = "Enter" /\ status # <<>> /\ status[1] # 0)
        => error_message # <<>>

\* C3: Enter on a task whose spawn fails (no child comes to exist) sets an
\* error message and the loop goes on to the next frame
C3_SpawnFailureSurfaced ==
    [][(/\ pc = "event" /\ code' = "Enter" /\ error_message = <<>>
        /\ IsTaskPath(FilePath(selected)) /\ child' = <<>>)
           => (error_message' # <<>> /\ pc' = "draw")]_vars

\* C4: in every state of the dashboard 0 <= scroll_offset <= total_lines
C4_ScrollWithinBounds ==
    /\ scroll_offset \in Nat
    /\ total_lines \in Nat
    /\ scroll_offset <= total_lines

\* PageDown has moved the offset by one step inside a longer output of a run
C4_Witness ==
    /\ code = "PageDown"
    /\ pc = "draw"
    /\ scroll_offset = ScrollStep
    /\ total_lines > ScrollStep

\* C5: a run starts by emptying the preview and zeroing scroll_offset and
\* total_lines; while it reads and when it returns, scroll_offset is 0 and the
\* preview holds text of the new output only: all of it when no error occurred
C5_RunReplacesPreview ==
    /\ [][(pc = "event" /\ pc' = "running")
              => (file_preview' = <<>> /\ scroll_offset' = 0 /\ total_lines' = 0)]_vars
    /\ [](pc = "running"
              => (/\ scroll_offset = 0
                  /\ Printable(file_preview) = Printable(captured)))
    /\ [][(pc = "running" /\ pc' = "draw")
              => (/\ scroll_offset' = 0
                  /\ IsPrefix(Printable(file_preview'), Printable(captured'))
                  /\ (error_message' # <<ReadErrorMessage>>
                         => Printable(file_preview') = Printable(captured')))]_vars

\* a second run has returned with some output
C5_Witness ==
    /\ pc = "draw"
    /\ code = "Enter"
    /\ Len(log) = 2
    /\ status # <<>>
    /\ Printable(captured) # <<>>
    /\ Printable(file_preview) = Printable(captured)

\* C6: the loader of main.rs returns the day nodes in strictly increasing
\* order of their numbers, whatever the order of the scan
C6_DaysStrictlyIncreasing ==
    loaded = "App"
        => \A i, j \in 1..Len(file_tree) :
               i < j => DayValue(file_tree[i].identifier)
                            < DayValue(file_tree[j].identifier)

\* C7: on the catalog day1{task1, task2}, day2{task1}, Down pressed twice
\* from the start selects day1/task2, and Enter then starts one subprocess in
\* <current dir>/day1/task2, whose output fills the preview
C7_DownDownEnterRunsTask2 ==
    /\ (hist = <<"Down", "Down">> /\ pc = "draw")
           => selected = <<Day1Dir.name, task2>>
    /\ (hist = <<"Down", "Down", "Enter">> /\ pc = "running")
           => (/\ live = 1
               /\ child[1].cwd = CurrentDir \o Slash \o Day1Dir.name \o Slash \o task2)
    /\ (hist = <<"Down", "Down", "Enter">> /\ pc = "draw" /\ error_message = <<>>)
           => (/\ log = << CurrentDir \o Slash \o Day1Dir.name \o Slash \o task2 >>
               /\ Printable(file_preview) = Printable(captured))

\* C8: at most one task subprocess exists, and the loop waits for a key
\* event only when no task subprocess exists
C8_NoInputWhileSubprocess ==
    /\ live <= 1
    /\ pc = "event" => live = 0

\* C9: a day directory that holds neither task1 nor task2 has no node in the
\* catalog the loader returns
C9_ChildlessDaySkipped ==
    loaded # "none" => \A e \in ChildlessDayDirs : ~HasNode(e.name)

\* C9 as amended: such a directory is not skipped, it has a node in the
\* catalog and the node has no children
C9_ChildlessDayKept ==
    loaded # "none"
        => \A e \in ChildlessDayDirs :
               \E i \in 1..Len(file_tree) :
                   file_tree[i] = [identifier |-> e.name, children |-> <<>>]

C9_Witness ==
    /\ loaded = "App"
    /\ ChildlessDayDirs # {}
    /\ \E i \in 1..Len(file_tree) : file_tree[i].children # <<>>

\* C10: the day directory without task directories is a node without
\* children, and Right or Enter on that node starts no task and leaves the
\* selection and the preview as they are
C10_ChildlessDayCannotBeEntered ==
    /\ [](\A e \in ChildlessDayDirs :
              \E i \in 1..Len(file_tree) :
                  file_tree[i] = [identifier |-> e.name, children |-> <<>>])
    /\ [][(/\ pc = "event" /\ ChildlessDaySelected
           /\ code' \in RightKeys \cup {"Enter"})
              => (/\ selected' = selected
                  /\ file_preview' = file_preview
                  /\ scroll_offset' = scroll_offset
                  /\ total_lines' = total_lines
                  /\ scrollbar_state' = scrollbar_state
                  /\ child' = child
                  /\ live' = live
                  /\ log' = log
                  /\ pc' # "running")]_vars

C10_Witness ==
    /\ pc = "draw"
    /\ ChildlessDaySelected
    /\ code \in RightKeys \cup {"Enter"}
    /\ error_message = <<>>

\* the number of line-break characters of a text
RECURSIVE CountBreaks(_)
CountBreaks(text) ==
    IF text = <<>> THEN 0
    ELSE (IF text[1] = NL THEN 1 ELSE 0) + CountBreaks(Tail(text))

\* the whole name is "day" followed by one or more decimal digits
WholeNameIsDay(name) ==
    /\ Len(name) >= 4
    /\ name[1] = "d" /\ name[2] = "a" /\ name[3] = "y"
    /\ \A i \in 4..Len(name) :
           name[i] \in {"0", "1", "2", "3", "4", "5", "6", "7", "8", "9"}

\* C11: every top-level node of the catalog is a directory of the scan whose
\* whole name is "day" followed by digits; no other entry becomes a node
C11_OnlyDayDirectories ==
    loaded # "none"
        => \A i \in 1..Len(file_tree) :
               /\ WholeNameIsDay(file_tree[i].identifier)
               /\ \E j \in 1..Len(scan) :
                      /\ scan[j].name = file_tree[i].identifier
                      /\ scan[j].is_dir

\* a scan with a day directory, a directory of another name and a plain file
\* has been loaded
C11_Witness ==
    /\ loaded = "App"
    /\ Len(file_tree) = 1
    /\ \E j \in 1..Len(scan) : scan[j].is_dir /\ ~WholeNameIsDay(scan[j].name)
    /\ \E j \in 1..Len(scan) : ~scan[j].is_dir /\ WholeNameIsDay(scan[j].name)

\* C12: after a run total_lines is the number of line-break characters of
\* the captured output
C12_TotalLinesCountsBreaks ==
    status # <<>> => total_lines = CountBreaks(captured)

\* C12 as amended: total_lines is the number of lines read, that is the line
\* breaks of the output plus one when the output ends without a line break; it
\* is the number of line breaks of the stored preview text
C12_TotalLinesCountsLines ==
    /\ total_lines = CountBreaks(file_preview)
    /\ status # <<>>
           => total_lines = CountBreaks(captured)
                  + (IF captured # <<>> /\ captured[Len(captured)] # NL
                     THEN 1 ELSE 0)

\* a run has read an output whose last line has no line break
C12_Witness ==
    /\ status # <<>>
    /\ pc = "draw"
    /\ captured = <<"a", NL, "a">>
    /\ total_lines = 2

\* C13: after a run the preview text is the text the subprocess wrote,
\* character for character
C13_PreviewVerbatim ==
    status # <<>> => file_preview = captured

\* C14: an error message shown in the modal is a line of the error log
C14_ModalErrorsLogged ==
    error_message # <<>> => \E i \in 1..Len(log) : log[i] = error_message

\* C15: after PageUp, PageDown and a completed run the scrollbar state is the
\* one derived from total_lines and scroll_offset
C15_ScrollbarDerived ==
    pc = "draw" => scrollbar_state = ScrollbarState(total_lines, scroll_offset)

----------------------------------------------------------------------------
(* The puzzle solutions are programs of their own: while one of them runs, *)
(* the dashboard is not running.                                           *)

app_vars == << scan, loaded, file_tree, pc, dash_vars >>

DashIdle ==
    /\ scan = <<>>
    /\ loaded = "none"
    /\ file_tree = <<>>
    /\ opened = {}
    /\ last_identifiers = <<>>
    /\ selected = <<>>
    /\ file_preview = <<>>
    /\ scroll_offset = 0
    /\ total_lines = 0
    /\ scrollbar_state = ScrollbarState(0, 0)
    /\ error_message = <<>>
    /\ log = <<>>
    /\ pc = "off"
    /\ child = <<>>
    /\ live = 0
    /\ code = "none"
    /\ status = <<>>
    /\ captured = <<>>
    /\ hist = <<>>
    /\ frame = <<>>
    /\ result = "none"

\* what a puzzle solution leaves alone, and where the others are while it runs
other_than_day9 == << app_vars, day6_vars, day17_vars, day15_vars, day12_vars >>

other_than_day6 == << app_vars, day9_vars, day17_vars, day15_vars, day12_vars >>

other_than_day17 == << app_vars, day9_vars, day6_vars, day15_vars, day12_vars >>

other_than_day15 == << app_vars, day9_vars, day6_vars, day17_vars, day12_vars >>

other_than_day12 == << app_vars, day9_vars, day6_vars, day17_vars, day15_vars >>

Day9Alone == DashIdle /\ Day6Idle /\ Day17Idle /\ Day15Idle /\ Day12Idle

Day6Alone == DashIdle /\ Day9Idle /\ Day17Idle /\ Day15Idle /\ Day12Idle

Day17Alone == DashIdle /\ Day9Idle /\ Day6Idle /\ Day15Idle /\ Day12Idle

Day15Alone == DashIdle /\ Day9Idle /\ Day6Idle /\ Day17Idle /\ Day12Idle

Day12Alone == DashIdle /\ Day9Idle /\ Day6Idle /\ Day17Idle /\ Day15Idle

----------------------------------------------------------------------------
(* day9/task2: the disk and Disk::defragment.  Indexes are 0-based as in   *)
(* the source; blocks[k] of the source is blocks[k + 1] here.              *)

MaxDense == 5     \* the longest dense disk map that is parsed
MaxDigit == 2     \* the largest digit of a dense disk map

max_iter == 100000

\* DiskBlock::Free(size)
Free(size) == [kind |-> "Free", size |-> size]

\* DiskBlock::File { size, id }
File(size, id) == [kind |-> "File", size |-> size, id |-> id]

\* parse_input: the digits alternate between a file and a free block, the
\* id of a file is its rank among the files
parse_input(input) ==
    [k \in 1..Len(input) |->
        IF (k - 1) % 2 = 0
        THEN File(DigitVal(input[k]), (k - 1) \div 2)
        ELSE Free(DigitVal(input[k]))]

\* Vec::contains
VecContains(v, x) == \E k \in 1..Len(v) : v[k] = x

\* the rposition(...).unwrap_or(0) of defragment: the last file block whose
\* id is not checked yet, 0 when there is none
file_block_index(blocks, checked) ==
    LET found == { k \in 0..(Len(blocks) - 1) :
                     /\ blocks[k + 1].kind = "File"
                     /\ ~VecContains(checked, blocks[k + 1].id) }
    IN  IF found = {} THEN 0
        ELSE CHOOSE k \in found : \A other \in found : other <= k

\* the match on disk.blocks[file_block_index]: (file_size, file_id)
file_of(blocks, index) ==
    IF blocks[index + 1].kind = "File"
    THEN [size |-> blocks[index + 1].size, id |-> blocks[index + 1].id]
    ELSE [size |-> 0, id |-> 0]

\* the position(...).unwrap_or(0) of defragment: the first free block that
\* holds file_size, 0 when there is none
free_block_index(blocks, file_size) ==
    LET found == { k \in 0..(Len(blocks) - 1) :
                     /\ blocks[k + 1].kind = "Free"
                     /\ blocks[k + 1].size >= file_size }
    IN  IF found = {} THEN 0
        ELSE CHOOSE k \in found : \A other \in found : k <= other

\* Vec::insert(index, element)
VecInsert(v, index, element) ==
    SubSeq(v, 1, index) \o << element >> \o SubSeq(v, index + 1, Len(v))

\* the retain of defragment_file_into: blocks of size 0 are dropped
RetainNonEmpty(v) == SelectSeq(v, LAMBDA block : block.size > 0)

\* the error defragment_file_into returns, "none" when it returns Ok
defragment_file_into_error(blocks, file_index, free_index) ==
    IF blocks[file_index + 1].kind # "File" THEN "MissingFile"
    ELSE IF blocks[free_index + 1].kind # "Free" THEN "MissingFreeBlock"
    ELSE "none"

\* defragment_file_into without the free block that takes the place of the
\* cells moved away
defragment_file_into_NoHole(blocks, file_index, free_index) ==
    LET file_block == blocks[file_index + 1]
        free_block_size == blocks[free_index + 1].size
        move_size == Min(file_block.size, free_block_size)
        shrunk == [blocks EXCEPT
                     ![free_index + 1] = Free(free_block_size - move_size),
                     ![file_index + 1] = File(file_block.size - move_size, file_block.id)]
        with_file == VecInsert(shrunk, free_index, File(move_size, file_block.id))
    IN  RetainNonEmpty(with_file)

\* the blocks of the disk defragment_file_into returns
defragment_file_into(blocks, file_index, free_index) ==
    LET file_block == blocks[file_index + 1]
        free_block_size == blocks[free_index + 1].size
        move_size == Min(file_block.size, free_block_size)
        shrunk == [blocks EXCEPT
                     ![free_index + 1] = Free(free_block_size - move_size),
                     ![file_index + 1] = File(file_block.size - move_size, file_block.id)]
        with_file == VecInsert(shrunk, free_index, File(move_size, file_block.id))
        with_free == VecInsert(with_file, file_index + 2, Free(move_size))
    IN  RetainNonEmpty(with_free)

DenseChars == { c \in Digits : DigitVal(c) <= MaxDigit }

DenseMaps == UNION { [1..n -> DenseChars] : n \in 1..MaxDense }

InitDefrag ==
    /\ Day9Alone
    /\ disk \in { parse_input(input) : input \in DenseMaps }
    /\ checked_ids = <<>>
    /\ defrag_i = 0
    /\ defrag_result = "none"

\* file_block_index == 0: break, defragment returns Ok(disk)
Defragment_Break ==
    /\ defrag_result = "none"
    /\ file_block_index(disk, checked_ids) = 0
    /\ defrag_result' = "Ok"
    /\ UNCHANGED << other_than_day9, disk, checked_ids, defrag_i >>

\* the file is marked as checked and stays: no free block was found, or the
\* one found is not on the left of the file
Defragment_Continue ==
    LET file_index == file_block_index(disk, checked_ids)
        file == file_of(disk, file_index)
        free_index == free_block_index(disk, file.size)
    IN  /\ defrag_result = "none"
        /\ file_index # 0
        /\ free_index = 0 \/ file_index <= free_index
        /\ checked_ids' = Append(checked_ids, file.id)
        /\ UNCHANGED << other_than_day9, disk, defrag_i, defrag_result >>

\* the file is marked as checked and moved into the free block found
Defragment_Move ==
    LET file_index == file_block_index(disk, checked_ids)
        file == file_of(disk, file_index)
        free_index == free_block_index(disk, file.size)
    IN  /\ defrag_result = "none"
        /\ file_index # 0
        /\ free_index # 0
        /\ file_index > free_index
        /\ checked_ids' = Append(checked_ids, file.id)
        /\ IF defrag_i > max_iter
           THEN /\ defrag_result' = "DefragIterationLimit"
                /\ UNCHANGED << disk, defrag_i >>
           ELSE /\ defrag_i' = defrag_i + 1
                /\ IF defragment_file_into_error(disk, file_index, free_index) # "none"
                   THEN /\ defrag_result' = defragment_file_into_error(disk, file_index, free_index)
                        /\ UNCHANGED disk
                   ELSE /\ disk' = defragment_file_into(disk, file_index, free_index)
                        /\ UNCHANGED defrag_result
        /\ UNCHANGED other_than_day9

NextDefrag == Defragment_Break \/ Defragment_Continue \/ Defragment_Move

SpecDefrag == InitDefrag /\ [][NextDefrag]_vars

\* the cells of the disk from left to right: the id of the file a cell
\* belongs to, -1 for a free cell
RECURSIVE Cells(_)
Cells(blocks) ==
    IF blocks = <<>> THEN <<>>
    ELSE [c \in 1..Head(blocks).size |->
             IF Head(blocks).kind = "File" THEN Head(blocks).id ELSE -1]
         \o Cells(Tail(blocks))

\* the number of cells on the left of block index
RECURSIVE OffsetOf(_, _)
OffsetOf(blocks, index) ==
    IF index = 0 THEN 0
    ELSE OffsetOf(blocks, index - 1) + blocks[index].size

\* the cells after the size cells at offset from went to offset to
MovedCells(cells, from, size, to) ==
    [c \in 1..Len(cells) |->
        IF c > to /\ c <= to + size THEN cells[from + 1]
        ELSE IF c > from /\ c <= from + size THEN -1
        ELSE cells[c]]

\* the free blocks on the left of block index that hold size cells
FitsOnLeft(blocks, index, size) ==
    { k \in 0..(index - 1) : blocks[k + 1].kind = "Free" /\ blocks[k + 1].size >= size }

LeftMost(indexes) == CHOOSE k \in indexes : \A other \in indexes : k <= other

\* the cells of every file id are one run
OneRunPerFile(cells) ==
    \A a, b \in 1..Len(cells) :
        (a < b /\ cells[a] # -1 /\ cells[a] = cells[b]) =>
            \A c \in a..b : cells[c] = cells[a]

\* one iteration of defragment considered a file
Considered == defrag_result = "none" /\ checked_ids' # checked_ids

\* C16: defragment considers each file once, from the rightmost to the
\* leftmost; the file goes as a whole into the leftmost free block on its
\* left that holds it, and stays when there is none; every file id is one
\* run of cells
C16_DefragmentMovesLeftmostFit ==
    /\ [](OneRunPerFile(Cells(disk)))
    /\ [][Considered =>
            LET file_index == file_block_index(disk, checked_ids)
                file == disk[file_index + 1]
                fits == FitsOnLeft(disk, file_index, file.size)
            IN  /\ ~VecContains(checked_ids, file.id)
                /\ \A k \in (file_index + 1)..(Len(disk) - 1) :
                       disk[k + 1].kind = "File" => VecContains(checked_ids, disk[k + 1].id)
                /\ IF fits = {}
                   THEN Cells(disk') = Cells(disk)
                   ELSE Cells(disk') =
                            MovedCells(Cells(disk), OffsetOf(disk, file_index), file.size,
                                       OffsetOf(disk, LeftMost(fits)))]_vars

----------------------------------------------------------------------------
(* day6/task2: the guard's walk.  A cell of Map.map is a String, here the  *)
(* sequence of its characters; coordinates are 0-based as in the source,   *)
(* map[y][x] of the source is map[y + 1][x + 1] here.                      *)

MaxSide == 3        \* the largest width and height of a generated map
MaxObstacles == 3   \* the largest number of obstacles of a generated map

UP_CHAR == "^"
DOWN_CHAR == "v"
LEFT_CHAR == "<"
RIGHT_CHAR == ">"
OBSTACLE_CHAR == "#"
FREE_SPACE_CHAR == "."

GuardChars == { UP_CHAR, DOWN_CHAR, LEFT_CHAR, RIGHT_CHAR }

\* the match of mark_visited: VISITED_UP_CHAR, VISITED_DOWN_CHAR, ...
VisitedChar(dir) ==
    CASE dir = UP_CHAR -> "u" [] dir = DOWN_CHAR -> "d"
      [] dir = LEFT_CHAR -> "l" [] dir = RIGHT_CHAR -> "r"

MapHeight(m) == Len(m)

MapWidth(m) == Len(m[1])

CellAt(m, pos) == m[pos[2] + 1][pos[1] + 1]

\* Map::find_guard: the first guard character in row order
find_guard(m) ==
    LET guards == { pos \in (0..(MapWidth(m) - 1)) \X (0..(MapHeight(m) - 1)) :
                      CellAt(m, pos) \in { << c >> : c \in GuardChars } }
    IN  CHOOSE pos \in guards :
           \A other \in guards :
              pos[2] < other[2] \/ (pos[2] = other[2] /\ pos[1] <= other[1])

\* the cell one step from pos in direction dir (move_up, move_down, ...)
StepFrom(pos, dir) ==
    CASE dir = UP_CHAR -> << pos[1], pos[2] - 1 >>
      [] dir = DOWN_CHAR -> << pos[1], pos[2] + 1 >>
      [] dir = LEFT_CHAR -> << pos[1] - 1, pos[2] >>
      [] dir = RIGHT_CHAR -> << pos[1] + 1, pos[2] >>

\* the tests of peek_up, peek_down, peek_left, peek_right
OnMap(m, pos) ==
    /\ pos[1] >= 0 /\ pos[1] <= MapWidth(m) - 1
    /\ pos[2] >= 0 /\ pos[2] <= MapHeight(m) - 1

\* Map::peek: <<>> is None, <<c>> is Some(c)
peek(m, pos, dir) ==
    IF OnMap(m, StepFrom(pos, dir)) THEN << CellAt(m, StepFrom(pos, dir)) >> ELSE <<>>

\* Map::rotate_guard
rotate_guard(dir) ==
    CASE dir = UP_CHAR -> RIGHT_CHAR [] dir = RIGHT_CHAR -> DOWN_CHAR
      [] dir = DOWN_CHAR -> LEFT_CHAR [] dir = LEFT_CHAR -> UP_CHAR

\* Map::mark_visited: nothing is appended when the cell contains the
\* character of the direction.  A cell is only ever read with contains() and
\* compared with "#" and ".", so a mark the cell already holds is not
\* appended a second time here: the cell text stays bounded.
mark_visited(m, pos, dir) ==
    LET current_string == CellAt(m, pos)
    IN  IF Contains(current_string, << dir >>) THEN m
        ELSE IF Contains(current_string, << VisitedChar(dir) >>) THEN m
        ELSE [m EXCEPT ![pos[2] + 1][pos[1] + 1] = Append(current_string, VisitedChar(dir))]

\* check_if_visited_up, _down, _left, _right: scan from the cell next to pos
\* in direction dir; TRUE at a cell visited in that direction, FALSE at an
\* obstacle or at the border
RECURSIVE check_if_visited(_, _, _)
check_if_visited(m, pos, dir) ==
    LET next == StepFrom(pos, dir)
    IN  IF ~OnMap(m, next) THEN FALSE
        ELSE IF Contains(CellAt(m, next), << VisitedChar(dir) >>) THEN TRUE
        ELSE IF CellAt(m, next) = << OBSTACLE_CHAR >> THEN FALSE
        ELSE check_if_visited(m, next, dir)

\* Map::check_loop_obstacle: the coords after the call
check_loop_obstacle(m, pos, dir, coords) ==
    IF /\ peek(m, pos, dir) # <<>>
       /\ check_if_visited(m, pos, rotate_guard(dir))
       /\ peek(m, pos, dir)[1] = << FREE_SPACE_CHAR >>
    THEN Append(coords, StepFrom(pos, dir))
    ELSE coords

\* Map::count_loop_obstacles
count_loop_obstacles(coords, initial_position) ==
    Cardinality({ k \in 1..Len(coords) : coords[k] # initial_position })

\* Map::count_visited
count_visited(m) ==
    Cardinality({ pos \in (0..(MapWidth(m) - 1)) \X (0..(MapHeight(m) - 1)) :
                    \E dir \in GuardChars : Contains(CellAt(m, pos), << VisitedChar(dir) >>) })

\* the arm of the match of walk_path that is taken
WalkArm(m, pos, dir) ==
    LET c == peek(m, pos, dir)
    IN  IF c = <<>> THEN "leave"
        ELSE IF c[1] = << OBSTACLE_CHAR >> THEN "rotate"
        ELSE IF Contains(c[1], << VisitedChar(dir) >>) THEN "loop"
        ELSE "move"

\* parse_input: one String per character
ParseRows(rows) == [ r \in 1..Len(rows) |-> [ k \in 1..Len(rows[r]) |-> << rows[r][k] >> ] ]

\* PUZZLE_INPUT of the tests
PUZZLE_INPUT ==
    << << ".", ".", ".", ".", "#", ".", ".", ".", ".", "." >>,
       << ".", ".", ".", ".", ".", ".", ".", ".", ".", "#" >>,
       << ".", ".", ".", ".", ".", ".", ".", ".", ".", "." >>,
       << ".", ".", "#", ".", ".", ".", ".", ".", ".", "." >>,
       << ".", ".", ".", ".", ".", ".", ".", "#", ".", "." >>,
       << ".", ".", ".", ".", ".", ".", ".", ".", ".", "." >>,
       << ".", "#", ".", ".", "^", ".", ".", ".", ".", "." >>,
       << ".", ".", ".", ".", ".", ".", ".", ".", "#", "." >>,
       << "#", ".", ".", ".", ".", ".", ".", ".", ".", "." >>,
       << ".", ".", ".", ".", ".", ".", "#", ".", ".", "." >> >>

\* PUZZLE_INPUT_LOOP of the tests
PUZZLE_INPUT_LOOP ==
    << << ".", ".", ".", ".", "#", ".", ".", ".", ".", "." >>,
       << ".", ".", ".", ".", ".", ".", ".", ".", ".", "#" >>,
       << ".", ".", ".", ".", ".", ".", ".", ".", ".", "." >>,
       << ".", ".", "#", ".", ".", ".", ".", ".", ".", "." >>,
       << ".", ".", ".", ".", ".", ".", ".", "#", ".", "." >>,
       << ".", ".", ".", ".", ".", ".", ".", ".", ".", "." >>,
       << ".", "#", ".", "#", "^", ".", ".", ".", ".", "." >>,
       << ".", ".", ".", ".", ".", ".", ".", ".", "#", "." >>,
       << "#", ".", ".", ".", ".", ".", ".", ".", ".", "." >>,
       << ".", ".", ".", ".", ".", ".", "#", ".", ".", "." >> >>

\* a guard with an obstacle on each of its four sides
BOXED_INPUT ==
    << << ".", "#", "." >>,
       << "#", "^", "#" >>,
       << ".", "#", "." >> >>

\* the maps of w columns and h rows with one guard and at most MaxObstacles
\* obstacles
GeneratedMaps(w, h) ==
    LET cells == (1..h) \X (1..w)
    IN  { [ r \in 1..h |-> [ k \in 1..w |->
              IF << r, k >> = guard THEN dir
              ELSE IF << r, k >> \in obstacles THEN OBSTACLE_CHAR
              ELSE FREE_SPACE_CHAR ] ] :
            guard \in cells, dir \in GuardChars,
            obstacles \in { o \in SUBSET cells : Cardinality(o) <= MaxObstacles } }

\* a map the guard leaves, where one more obstacle under the guard's last
\* cell makes it walk up and down for ever
DEAD_END_INPUT ==
    << << ".", "#", "." >>,
       << ".", ".", "#" >>,
       << "#", "^", "." >>,
       << ".", ".", "." >> >>

\* the maps of the tests and the maps that show a single case
SampleMaps == { PUZZLE_INPUT, PUZZLE_INPUT_LOOP, BOXED_INPUT, DEAD_END_INPUT }

\* parse_input and Map::new
InitWalk ==
    /\ Day6Alone
    /\ puzzle_input \in
          UNION { GeneratedMaps(w, h) : w \in 1..MaxSide, h \in 1..MaxSide } \cup SampleMaps
    /\ map = ParseRows(puzzle_input)
    /\ guard_position = find_guard(map)
    /\ guard_direction = CellAt(map, guard_position)[1]
    /\ loop_obstacle_coords = <<>>
    /\ walk_result = "none"

\* walk_path, one iteration: the guard faces an obstacle and turns
Walk_Rotate ==
    LET marked == mark_visited(map, guard_position, guard_direction)
    IN  /\ walk_result = "none"
        /\ WalkArm(marked, guard_position, guard_direction) = "rotate"
        /\ map' = marked
        /\ guard_direction' = rotate_guard(guard_direction)
        /\ loop_obstacle_coords' =
              check_loop_obstacle(marked, guard_position, rotate_guard(guard_direction),
                                  loop_obstacle_coords)
        /\ UNCHANGED << other_than_day6, puzzle_input, guard_position, walk_result >>

\* walk_path, one iteration: the cell ahead was visited in this direction
Walk_Loop ==
    LET marked == mark_visited(map, guard_position, guard_direction)
    IN  /\ walk_result = "none"
        /\ WalkArm(marked, guard_position, guard_direction) = "loop"
        /\ map' = marked
        /\ walk_result' = "WalkLoopDetected"
        /\ UNCHANGED << other_than_day6, puzzle_input, guard_position,
                        guard_direction, loop_obstacle_coords >>

\* walk_path, one iteration: the guard steps ahead
Walk_Move ==
    LET marked == mark_visited(map, guard_position, guard_direction)
    IN  /\ walk_result = "none"
        /\ WalkArm(marked, guard_position, guard_direction) = "move"
        /\ map' = marked
        /\ guard_position' = StepFrom(guard_position, guard_direction)
        /\ loop_obstacle_coords' =
              check_loop_obstacle(marked, StepFrom(guard_position, guard_direction),
                                  guard_direction, loop_obstacle_coords)
        /\ UNCHANGED << other_than_day6, puzzle_input, guard_direction, walk_result >>

\* walk_path, one iteration: the next step leaves the map
Walk_Leave ==
    LET marked == mark_visited(map, guard_position, guard_direction)
    IN  /\ walk_result = "none"
        /\ WalkArm(marked, guard_position, guard_direction) = "leave"
        /\ map' = marked
        /\ walk_result' = "Ok"
        /\ UNCHANGED << other_than_day6, puzzle_input, guard_position,
                        guard_direction, loop_obstacle_coords >>

NextWalk == Walk_Rotate \/ Walk_Loop \/ Walk_Move \/ Walk_Leave

SpecWalk == InitWalk /\ [][NextWalk]_vars

\* walk_path runs on: an iteration that can be taken is taken
SpecWalkFair == SpecWalk /\ WF_vars(NextWalk)

\* the rules of the walk, from the guard's state (pos, dir) on the rows of
\* grid: the states the guard is in until it leaves the map or is in a
\* state for the second time, and whether it is the latter
RECURSIVE GuardRoute(_, _, _, _)
GuardRoute(grid, pos, dir, seen) ==
    IF << pos, dir >> \in seen THEN [loops |-> TRUE, states |-> seen]
    ELSE IF ~OnMap(grid, StepFrom(pos, dir))
         THEN [loops |-> FALSE, states |-> seen \cup { << pos, dir >> }]
    ELSE IF CellAt(grid, StepFrom(pos, dir)) = << OBSTACLE_CHAR >>
         THEN GuardRoute(grid, pos, rotate_guard(dir), seen \cup { << pos, dir >> })
    ELSE GuardRoute(grid, StepFrom(pos, dir), dir, seen \cup { << pos, dir >> })

\* the route of the guard of the puzzle input
InputRoute(grid) ==
    GuardRoute(grid, find_guard(grid), CellAt(grid, find_guard(grid))[1], {})

\* the cells the guard of the puzzle input stands on
CellsStoodOn(grid) == { st[1] : st \in InputRoute(grid).states }

\* the puzzle input with one more obstacle
WithObstacle(grid, pos) ==
    [grid EXCEPT ![pos[2] + 1][pos[1] + 1] = << OBSTACLE_CHAR >>]

\* the cells other than the start where one more obstacle makes the guard
\* walk for ever
LoopingObstacles(grid) ==
    { pos \in (0..(MapWidth(grid) - 1)) \X (0..(MapHeight(grid) - 1)) :
        /\ pos # find_guard(grid)
        /\ GuardRoute(WithObstacle(grid, pos), find_guard(grid),
                      CellAt(grid, find_guard(grid))[1], {}).loops }

\* C17: after walk_path returned Ok, count_visited() is the number of
\* distinct cells the guard stood on, the start included
C17_CountVisitedIsCellsStoodOn ==
    walk_result = "Ok" =>
        count_visited(map) = Cardinality(CellsStoodOn(ParseRows(puzzle_input)))

\* C18: after walk_path returned Ok, count_loop_obstacles() is the number of
\* cells other than the start where one added obstacle makes the guard loop
C18_LoopObstaclesCounted ==
    walk_result = "Ok" =>
        count_loop_obstacles(loop_obstacle_coords, find_guard(ParseRows(puzzle_input)))
            = Cardinality(LoopingObstacles(ParseRows(puzzle_input)))

\* C19: walk_path terminates on every rectangular map with a guard, with Ok
\* when the next step leaves the map and with WalkLoopDetected when the
\* route repeats
C19_WalkPathTerminates ==
    /\ <>(walk_result # "none")
    /\ [](walk_result = "Ok" => ~InputRoute(ParseRows(puzzle_input)).loops)
    /\ [](walk_result = "WalkLoopDetected" => InputRoute(ParseRows(puzzle_input)).loops)

----------------------------------------------------------------------------
(* day17/task1: the computer.  Registers and program values are i32;       *)
(* program[k] of the source is program[k + 1] here.                        *)

MaxInstructions == 1   \* most instructions of a generated program
MaxOutput == 4         \* most values the output holds

\* the exponents for which 2^k is an i32
MaxShift == 30

\* i32 `/` by a positive denominator: the quotient is truncated toward zero
TruncDiv(a, b) == IF a >= 0 THEN a \div b ELSE -((-a) \div b)

\* i32 `%` by a positive denominator: the remainder has the sign of a
TruncRem(a, b) == a - b * TruncDiv(a, b)

\* i32::pow(2, k) for the k where it does not overflow
RECURSIVE Pow2(_)
Pow2(k) == IF k = 0 THEN 1 ELSE 2 * Pow2(k - 1)

\* `^` on i32 values (two's complement: !x = -x - 1)
RECURSIVE BitXor(_, _)
BitXor(a, b) ==
    IF a < 0 /\ b < 0 THEN BitXor(-a - 1, -b - 1)
    ELSE IF a < 0 THEN -BitXor(-a - 1, b) - 1
    ELSE IF b < 0 THEN -BitXor(a, -b - 1) - 1
    ELSE IF a = 0 THEN b
    ELSE IF b = 0 THEN a
    ELSE 2 * BitXor(a \div 2, b \div 2) + ((a + b) % 2)

\* Computer::combo_operand_value: <<>> is None, <<v>> is Some(v)
combo_operand_value(operand) ==
    IF operand \in 0..3 THEN << operand >>
    ELSE IF operand = 4 THEN << register_a >>
    ELSE IF operand = 5 THEN << register_b >>
    ELSE IF operand = 6 THEN << register_c >>
    ELSE <<>>

\* numerator / i32::pow(2, operand as u32), as adv, bdv and cdv compute it.
\* For an exponent above 30 the power overflows: a build with overflow
\* checks panics; a build without them wraps, to i32::MIN for 31 (the
\* quotient of a numerator above i32::MIN is 0) and to 0 above 31 and for a
\* negative operand (the division by zero panics).
Quotients(numerator, operand) ==
    IF operand >= 0 /\ operand <= MaxShift
    THEN { [panic |-> FALSE, value |-> TruncDiv(numerator, Pow2(operand))] }
    ELSE IF operand = MaxShift + 1
    THEN { [panic |-> TRUE, value |-> 0], [panic |-> FALSE, value |-> 0] }
    ELSE { [panic |-> TRUE, value |-> 0] }

\* Computer::next_instruction finds an opcode and an operand at ip
HasInstruction == ip + 1 < Len(program)

Opcode == program[ip + 1]

Operand == program[ip + 2]

Running == run_result = "none"

\* the body of adv, bdv and cdv: register_a is divided and the quotient is
\* stored in the register named target
Division(target) ==
    /\ ip' = ip + 2
    /\ IF combo_operand_value(Operand) = <<>>
       THEN /\ run_result' = "None"
            /\ UNCHANGED << register_a, register_b, register_c >>
       ELSE \E q \in Quotients(register_a, combo_operand_value(Operand)[1]) :
               IF q.panic
               THEN /\ run_result' = "panicked"
                    /\ UNCHANGED << register_a, register_b, register_c >>
               ELSE /\ register_a' = IF target = "A" THEN q.value ELSE register_a
                    /\ register_b' = IF target = "B" THEN q.value ELSE register_b
                    /\ register_c' = IF target = "C" THEN q.value ELSE register_c
                    /\ UNCHANGED run_result
    /\ UNCHANGED << other_than_day17, program, output >>

\* Computer::adv
Adv ==
    /\ Running /\ HasInstruction /\ Opcode = 0
    /\ Division("A")

\* Computer::bdv
Bdv ==
    /\ Running /\ HasInstruction /\ Opcode = 6
    /\ Division("B")

\* Computer::cdv
Cdv ==
    /\ Running /\ HasInstruction /\ Opcode = 7
    /\ Division("C")

\* Computer::bxl
Bxl ==
    /\ Running /\ HasInstruction /\ Opcode = 1
    /\ ip' = ip + 2
    /\ register_b' = BitXor(register_b, Operand)
    /\ UNCHANGED << other_than_day17, register_a, register_c, program, output, run_result >>

\* Computer::bst
Bst ==
    /\ Running /\ HasInstruction /\ Opcode = 2
    /\ ip' = ip + 2
    /\ IF combo_operand_value(Operand) = <<>>
       THEN run_result' = "None" /\ UNCHANGED register_b
       ELSE /\ register_b' = TruncRem(combo_operand_value(Operand)[1], 8)
            /\ UNCHANGED run_result
    /\ UNCHANGED << other_than_day17, register_a, register_c, program, output >>

\* jnz that leaves the pointer two past the operand after a jump
Jnz_AdvancesAfterJump ==
    /\ Running /\ HasInstruction /\ Opcode = 3
    /\ ip' = IF register_a = 0 THEN ip + 2 ELSE Operand + 2
    /\ UNCHANGED << other_than_day17, register_a, register_b, register_c, program,
                    output, run_result >>

\* jnz: `self.ip = operand as usize` (the operands of the programs here are
\* not negative)
Jnz ==
    /\ Running /\ HasInstruction /\ Opcode = 3
    /\ ip' = IF register_a = 0 THEN ip + 2 ELSE Operand
    /\ UNCHANGED << other_than_day17, register_a, register_b, register_c, program,
                    output, run_result >>

\* Computer::bxc
Bxc ==
    /\ Running /\ HasInstruction /\ Opcode = 4
    /\ ip' = ip + 2
    /\ register_b' = BitXor(register_b, register_c)
    /\ UNCHANGED << other_than_day17, register_a, register_c, program, output, run_result >>

\* Computer::out: the value is pushed while the output is short of MaxOutput
Out ==
    /\ Running /\ HasInstruction /\ Opcode = 5
    /\ Len(output) < MaxOutput
    /\ ip' = ip + 2
    /\ IF combo_operand_value(Operand) = <<>>
       THEN run_result' = "None" /\ UNCHANGED output
       ELSE /\ output' = Append(output, TruncRem(combo_operand_value(Operand)[1], 8))
            /\ UNCHANGED run_result
    /\ UNCHANGED << other_than_day17, register_a, register_b, register_c, program >>

\* next_instruction returns None: run returns Some(())
Halt ==
    /\ Running
    /\ IF HasInstruction
       THEN Opcode \notin 0..7 /\ ip' = ip + 2
       ELSE UNCHANGED ip
    /\ run_result' = "Some"
    /\ UNCHANGED << other_than_day17, register_a, register_b, register_c, program, output >>

\* the programs of the tests test_jnz, test_example2 and test_example3
TestPrograms == { << 3, 4, 0, 0, 0 >>, << 5, 0, 5, 1, 5, 4 >>, << 0, 1, 5, 4, 3, 0 >> }

GeneratedPrograms == UNION { [1..(2 * n) -> 0..7] : n \in 1..MaxInstructions }

\* setup_computer of the tests
InitComputer ==
    /\ Day17Alone
    /\ register_a \in { -9, 0, 8, 33 }
    /\ register_b \in { 0, 31 }
    /\ register_c \in { 0, 3 }
    /\ program \in GeneratedPrograms \cup TestPrograms
    /\ ip = 0
    /\ output = <<>>
    /\ run_result = "none"

NextComputer == Adv \/ Bxl \/ Bst \/ Jnz \/ Bxc \/ Out \/ Bdv \/ Cdv \/ Halt

SpecComputer == InitComputer /\ [][NextComputer]_vars

\* a / 2^k with the quotient truncated toward zero
RECURSIVE TruncatedShift(_, _)
TruncatedShift(a, k) == IF k = 0 THEN a ELSE TruncatedShift(TruncDiv(a, 2), k - 1)

\* C20: for every combo operand value k >= 0, adv sets A to A / 2^k, bdv and
\* cdv store that quotient in B and in C and leave A as it is; no other
\* register, the output and the program change
C20_DivisionsStoreQuotient ==
    [][ ( /\ Running /\ HasInstruction /\ Opcode \in { 0, 6, 7 }
          /\ combo_operand_value(Operand) # <<>>
          /\ combo_operand_value(Operand)[1] >= 0 ) =>
        LET q == TruncatedShift(register_a, combo_operand_value(Operand)[1])
        IN  /\ run_result' = "none"
            /\ register_a' = IF Opcode = 0 THEN q ELSE register_a
            /\ register_b' = IF Opcode = 6 THEN q ELSE register_b
            /\ register_c' = IF Opcode = 7 THEN q ELSE register_c
            /\ output' = output
            /\ program' = program ]_vars

\* C21: jnz does nothing when A is 0 (the pointer is on the next
\* instruction); when A is not 0 the pointer is the literal operand, not
\* advanced after the jump; nothing else changes.  When no opcode and operand
\* are at the pointer the machine halts and the pointer stays where it is.
C21_JnzJumpsToOperand ==
    /\ [][ (Running /\ HasInstruction /\ Opcode = 3) =>
             /\ ip' = IF register_a = 0 THEN ip + 2 ELSE Operand
             /\ run_result' = "none"
             /\ << register_a, register_b, register_c, program, output >>' =
                   << register_a, register_b, register_c, program, output >> ]_vars
    /\ [][ (Running /\ ~HasInstruction) => (run_result' = "Some" /\ ip' = ip) ]_vars

\* test_jnz: A is 1, jnz 4 was executed, only one value is at index 4 and the
\* machine has halted with the pointer at 4
C21_Witness ==
    /\ program = << 3, 4, 0, 0, 0 >>
    /\ register_a # 0
    /\ run_result = "Some"
    /\ ip = 4

\* C22: a frame that was drawn with scroll_offset = k shows the preview from
\* line k of the stored text on (the vertical scroll handed to the Paragraph
\* is the scroll offset), for every k in 0..total_lines.
C22_RenderStartsAtOffset ==
    (pc = "event" /\ frame # <<>>) => frame[1].scroll = scroll_offset

----------------------------------------------------------------------------
(* day9/task2: defragment_file_into called on a parsed disk, as            *)
(* test_defragment_file_into calls it, next to the calls of defragment     *)

\* the dense disk map of test_defragment_file_into
PUZZLE_INPUT2 == << "1", "2", "3", "4", "5" >>

InitDisk ==
    /\ Day9Alone
    /\ disk \in { parse_input(input) : input \in DenseMaps \cup { PUZZLE_INPUT2 } }
    /\ checked_ids = <<>>
    /\ defrag_i = 0
    /\ defrag_result = "none"

\* disk.defragment_file_into(file_index, free_index) on the parsed disk;
\* an index that is no index of blocks panics
Call_defragment_file_into ==
    \E file_index, free_index \in 0..Len(disk) :
        /\ defrag_result = "none"
        /\ checked_ids = <<>>
        /\ defrag_i = 0
        /\ IF file_index >= Len(disk) \/ free_index >= Len(disk)
           THEN /\ defrag_result' = "panicked"
                /\ UNCHANGED disk
           ELSE IF defragment_file_into_error(disk, file_index, free_index) # "none"
           THEN /\ defrag_result' = defragment_file_into_error(disk, file_index, free_index)
                /\ UNCHANGED disk
           ELSE /\ disk' = defragment_file_into(disk, file_index, free_index)
                /\ defrag_result' = "Ok"
        /\ UNCHANGED << other_than_day9, checked_ids, defrag_i >>

NextDisk == NextDefrag \/ Call_defragment_file_into

SpecDisk == InitDisk /\ [][NextDisk]_vars

\* the offsets of the cells of file id
CellsOf(cells, id) == { c \in 1..Len(cells) : cells[c] = id }

\* the file ids of the blocks
FileIds(blocks) == { blocks[k].id : k \in { j \in 1..Len(blocks) : blocks[j].kind = "File" } }

\* the cells before and after hold the same number of cells in all and of
\* every file id, and the cells of at most one file id are at other offsets
SameContents(before, after, ids) ==
    /\ Len(after) = Len(before)
    /\ \A id \in ids :
           Cardinality(CellsOf(after, id)) = Cardinality(CellsOf(before, id))
    /\ \A a, b \in ids :
           (/\ CellsOf(after, a) # CellsOf(before, a)
            /\ CellsOf(after, b) # CellsOf(before, b)) => a = b

\* C25: a call of defragment_file_into, by defragment or on a parsed disk,
\* leaves the total length of the disk and the total size of every file id
\* as they were, and the cells of at most one file id (the file moved) are
\* at other offsets than before.
C25_DefragmentPreservesDisk ==
    [][ disk' # disk =>
            SameContents(Cells(disk), Cells(disk'), FileIds(disk) \cup FileIds(disk')) ]_vars

\* test_defragment_file_into: file 2 (5 cells) went into the free block of
\* 2 cells as far as it fits, 0..111....22222 became 022111....222..
C25_Witness ==
    /\ defrag_result = "Ok"
    /\ checked_ids = <<>>
    /\ Cells(disk) = << 0, 2, 2, 1, 1, 1, -1, -1, -1, -1, 2, 2, 2, -1, -1 >>

----------------------------------------------------------------------------
(* day15/task1: the robot that pushes boxes.  Map.map is a Matrix<char> of *)
(* the pathfinding crate; a cell is addressed by <<row, column>>, 0-based  *)
(* as in the source: the cell (r, c) is warehouse[r + 1][c + 1] here.      *)

MaxCells == 6     \* the largest number of cells of a generated warehouse
MaxBoxes == 2     \* the largest number of boxes of a generated warehouse
MaxWalls == 1     \* the largest number of walls of a generated warehouse

FREE_SPACE == "."
BOX == "O"
WALL == "#"

\* pathfinding::matrix::directions::{N, S, W, E}: (row, column) steps
directions == { << -1, 0 >>, << 1, 0 >>, << 0, -1 >>, << 0, 1 >> }

\* Matrix.rows and Matrix.columns
MatrixRows(matrix) == Len(matrix)

MatrixColumns(matrix) == IF matrix = <<>> THEN 0 ELSE Len(matrix[1])

\* Matrix::get of a cell within the matrix
MatrixGet(matrix, coord) == matrix[coord[1] + 1][coord[2] + 1]

\* Matrix::move_in_direction: the next cell, <<>> (None) when it is out of
\* the matrix
move_in_direction(matrix, start, direction) ==
    LET row == start[1] + direction[1]
        column == start[2] + direction[2]
    IN  IF row \in 0..(MatrixRows(matrix) - 1) /\ column \in 0..(MatrixColumns(matrix) - 1)
        THEN << row, column >>
        ELSE <<>>

\* Matrix::swap
MatrixSwap(matrix, a, b) ==
    [r \in 1..MatrixRows(matrix) |->
        [c \in 1..MatrixColumns(matrix) |->
            IF << r - 1, c - 1 >> = a THEN MatrixGet(matrix, b)
            ELSE IF << r - 1, c - 1 >> = b THEN MatrixGet(matrix, a)
            ELSE matrix[r][c]]]

\* a search that gives up when the cell behind `to` is not free
find_free_space_OneBox(matrix, coord, direction) ==
    LET next == move_in_direction(matrix, coord, direction)
    IN  IF next = <<>> THEN <<>>
        ELSE IF MatrixGet(matrix, next) = FREE_SPACE THEN next
        ELSE <<>>

\* the loop of move_to_box over in_direction(to, direction), which starts
\* behind `to`: the first free cell, <<>> (None) when a wall or the end of the
\* matrix comes first; boxes and other characters are passed over
RECURSIVE find_free_space(_, _, _)
find_free_space(matrix, coord, direction) ==
    LET next == move_in_direction(matrix, coord, direction)
    IN  IF next = <<>> THEN <<>>
        ELSE IF MatrixGet(matrix, next) = FREE_SPACE THEN next
        ELSE IF MatrixGet(matrix, next) = WALL THEN <<>>
        ELSE find_free_space(matrix, next, direction)

\* the warehouse of rows x columns cells with the boxes and walls given
WarehouseOf(rows, columns, boxes, walls) ==
    [r \in 1..rows |->
        [c \in 1..columns |->
            IF << r - 1, c - 1 >> \in boxes THEN BOX
            ELSE IF << r - 1, c - 1 >> \in walls THEN WALL
            ELSE FREE_SPACE]]

\* parse: the map with the robot's cell overwritten with a free space, and
\* the robot's position
InitRobot ==
    /\ Day15Alone
    /\ \E rows \in 1..MaxCells, columns \in 1..MaxCells :
           /\ rows * columns <= MaxCells
           /\ \E robot \in (0..(rows - 1)) \X (0..(columns - 1)) :
              \E boxes \in SUBSET (((0..(rows - 1)) \X (0..(columns - 1))) \ { robot }) :
                  /\ Cardinality(boxes) <= MaxBoxes
                  /\ \E walls \in SUBSET (((0..(rows - 1)) \X (0..(columns - 1)))
                                              \ ({ robot } \cup boxes)) :
                         /\ Cardinality(walls) <= MaxWalls
                         /\ warehouse = WarehouseOf(rows, columns, boxes, walls)
                         /\ robot_position = robot
    /\ last_direction = << 0, 0 >>

\* move_direction: the new position is out of the matrix
Move_OutOfBounds ==
    \E direction \in directions :
        /\ move_in_direction(warehouse, robot_position, direction) = <<>>
        /\ last_direction' = direction
        /\ UNCHANGED << other_than_day15, warehouse, robot_position >>

\* move_direction: Some(&FREE_SPACE) => move_to_free_space
Move_ToFreeSpace ==
    \E direction \in directions :
        LET new_position == move_in_direction(warehouse, robot_position, direction)
        IN  /\ new_position # <<>>
            /\ MatrixGet(warehouse, new_position) = FREE_SPACE
            /\ robot_position' = new_position
            /\ last_direction' = direction
            /\ UNCHANGED << other_than_day15, warehouse >>

\* move_direction: Some(&BOX) => move_to_box
Move_ToBox ==
    \E direction \in directions :
        LET to == move_in_direction(warehouse, robot_position, direction)
        IN  /\ to # <<>>
            /\ MatrixGet(warehouse, to) = BOX
            /\ LET free_space == find_free_space(warehouse, to, direction)
               IN  IF free_space # <<>>
                   THEN /\ warehouse' = MatrixSwap(warehouse, to, free_space)
                        /\ robot_position' = to
                   ELSE UNCHANGED << warehouse, robot_position >>
            /\ last_direction' = direction
            /\ UNCHANGED other_than_day15

\* move_direction: Some(&WALL) => ()
Move_IntoWall ==
    \E direction \in directions :
        LET new_position == move_in_direction(warehouse, robot_position, direction)
        IN  /\ new_position # <<>>
            /\ MatrixGet(warehouse, new_position) = WALL
            /\ last_direction' = direction
            /\ UNCHANGED << other_than_day15, warehouse, robot_position >>

NextRobot == Move_OutOfBounds \/ Move_ToFreeSpace \/ Move_ToBox \/ Move_IntoWall

SpecRobot == InitRobot /\ [][NextRobot]_vars

\* the cell k steps from coord in direction
CellAhead(coord, direction, k) ==
    << coord[1] + k * direction[1], coord[2] + k * direction[2] >>

InMatrix(matrix, coord) ==
    /\ coord[1] \in 0..(MatrixRows(matrix) - 1)
    /\ coord[2] \in 0..(MatrixColumns(matrix) - 1)

\* the cell of the matrix at coord is value
Holds(matrix, coord, value) ==
    InMatrix(matrix, coord) /\ matrix[coord[1] + 1][coord[2] + 1] = value

\* the cells of the matrix that are value
CellsThatAre(matrix, value) ==
    { coord \in (0..(MatrixRows(matrix) - 1)) \X (0..(MatrixColumns(matrix) - 1)) :
        Holds(matrix, coord, value) }

\* the number of boxes in a row that start next to coord in direction
BoxRun(matrix, coord, direction) ==
    CHOOSE n \in 0..MaxCells :
        /\ \A k \in 1..n : Holds(matrix, CellAhead(coord, direction, k), BOX)
        /\ ~Holds(matrix, CellAhead(coord, direction, n + 1), BOX)

\* the move in direction succeeds: the first cell beyond the run of boxes
\* (the next cell, when there is no box) is free
Succeeds(matrix, coord, direction) ==
    Holds(matrix, CellAhead(coord, direction, BoxRun(matrix, coord, direction) + 1),
          FREE_SPACE)

\* the matrix after every box of the run has advanced one cell
RunAdvanced(matrix, coord, direction) ==
    LET n == BoxRun(matrix, coord, direction)
    IN  [r \in 1..MatrixRows(matrix) |->
            [c \in 1..MatrixColumns(matrix) |->
                IF \E k \in 2..(n + 1) : << r - 1, c - 1 >> = CellAhead(coord, direction, k)
                THEN BOX
                ELSE IF << r - 1, c - 1 >> = CellAhead(coord, direction, 1)
                THEN FREE_SPACE
                ELSE matrix[r][c]]]

\* C23: the robot never stands on a wall or a box; a call of move_direction
\* leaves the walls where they are and the number of boxes as it is; a move
\* succeeds exactly when the first cell beyond the run of boxes in its way is
\* free, and then the robot and every box of the run advance one cell; any
\* other move leaves the map and the robot's position unchanged.
C23_RobotPushesBoxes ==
    /\ [](warehouse # <<>> => Holds(warehouse, robot_position, FREE_SPACE))
    /\ [][ /\ CellsThatAre(warehouse', WALL) = CellsThatAre(warehouse, WALL)
           /\ Cardinality(CellsThatAre(warehouse', BOX)) =
                  Cardinality(CellsThatAre(warehouse, BOX)) ]_vars
    /\ [][ IF Succeeds(warehouse, robot_position, last_direction')
           THEN /\ robot_position' = CellAhead(robot_position, last_direction', 1)
                /\ warehouse' = RunAdvanced(warehouse, robot_position, last_direction')
           ELSE /\ robot_position' = robot_position
                /\ warehouse' = warehouse ]_vars

\* the robot has pushed a run of two boxes one cell to the east
C23_Witness ==
    /\ warehouse = << << FREE_SPACE, FREE_SPACE, BOX, BOX >> >>
    /\ robot_position = << 0, 1 >>
    /\ last_direction = << 0, 1 >>

----------------------------------------------------------------------------
(* day12/task2: plot_edges, the walk around the perimeter of a plot.  A    *)
(* cell is <<row, column>>; the row or column before 0 (wrapping_sub gives *)
(* usize::MAX) is -1 here: no cell of a plot has it.                       *)

MaxPlotSide == 3    \* the plots lie in a square of MaxPlotSide rows and columns
MaxEdges == 16      \* the edges pushed after the first MaxEdges are not kept

\* top_neighbour, bottom_neighbour, left_neighbour, right_neighbour: the
\* cell they look up in coords
NeighbourCell(direction, node) ==
    CASE direction = "Up" -> << node[1] - 1, node[2] >>
      [] direction = "Down" -> << node[1] + 1, node[2] >>
      [] direction = "Left" -> << node[1], node[2] - 1 >>
      [] direction = "Right" -> << node[1], node[2] + 1 >>

\* the neighbour is Some
HasNeighbour(direction, node, coords) == NeighbourCell(direction, node) \in coords

\* the fold of plot_edges: the least row and the least column of the plot
start_node(coords) ==
    << CHOOSE row \in { c[1] : c \in coords } : \A c \in coords : row <= c[1],
       CHOOSE col \in { c[2] : c \in coords } : \A c \in coords : col <= c[2] >>

Edge(start, end, direction) == [start |-> start, end |-> end, direction |-> direction]

\* edges.push(edge)
PushEdge(list, edge) == IF Len(list) < MaxEdges THEN Append(list, edge) ELSE list

\* the edge direction after an inner corner on an edge of direction
InnerTurn(direction) ==
    CASE direction = "Up" -> "Left"
      [] direction = "Right" -> "Up"
      [] direction = "Down" -> "Right"
      [] direction = "Left" -> "Down"

\* the move direction after the move in direction has found no neighbour
OuterTurn(direction) ==
    CASE direction = "Right" -> "Down"
      [] direction = "Down" -> "Left"
      [] direction = "Left" -> "Up"
      [] direction = "Up" -> "Right"

\* Matrix::bfs_reachable of find_plots_dimensions: the cells reached from seen
RECURSIVE bfs_reachable(_, _)
bfs_reachable(cells, seen) ==
    LET more == { c \in cells \ seen :
                    \E n \in seen : (c[1] - n[1]) * (c[1] - n[1])
                                      + (c[2] - n[2]) * (c[2] - n[2]) = 1 }
    IN  IF more = {} THEN seen ELSE bfs_reachable(cells, seen \cup more)

\* the cells are one plot
IsPlot(cells) ==
    /\ cells # {}
    /\ bfs_reachable(cells, { CHOOSE c \in cells : TRUE }) = cells

\* plot_edges(&coords) is entered with the cells of a plot
InitEdges ==
    /\ Day12Alone
    /\ plot_coords \in { cells \in SUBSET ((0..(MaxPlotSide - 1)) \X (0..(MaxPlotSide - 1))) :
                           IsPlot(cells) }
    /\ move_direction = "Right"
    /\ edge_direction = "Up"
    /\ previous_node = start_node(plot_coords)
    /\ current_node = start_node(plot_coords)
    /\ edge_start = start_node(plot_coords)
    /\ edges = <<>>
    /\ edges_result = "none"

\* the first match: the neighbour on the side of the edge is Some, an inner
\* corner; the iteration ends with `continue`, before the test of the break
PlotEdges_InnerCorner ==
    /\ edges_result = "none"
    /\ HasNeighbour(edge_direction, current_node, plot_coords)
    /\ edges' = PushEdge(edges, Edge(edge_start, previous_node, edge_direction))
    /\ move_direction' = edge_direction
    /\ edge_direction' = InnerTurn(edge_direction)
    /\ previous_node' = IF edge_direction = "Up" THEN previous_node ELSE current_node
    /\ current_node' = NeighbourCell(edge_direction, current_node)
    /\ edge_start' = NeighbourCell(edge_direction, current_node)
    /\ UNCHANGED << other_than_day12, plot_coords, edges_result >>

\* the second match: the neighbour in the move direction is Some, the walk
\* goes on to it; then the test of the break
PlotEdges_Advance ==
    /\ edges_result = "none"
    /\ ~HasNeighbour(edge_direction, current_node, plot_coords)
    /\ HasNeighbour(move_direction, current_node, plot_coords)
    /\ previous_node' = current_node
    /\ current_node' = NeighbourCell(move_direction, current_node)
    /\ edges_result' = IF /\ NeighbourCell(move_direction, current_node) = start_node(plot_coords)
                          /\ edge_direction = "Up"
                       THEN "returned" ELSE "none"
    /\ UNCHANGED << other_than_day12, plot_coords, move_direction, edge_direction,
                    edge_start, edges >>

\* the second match: the neighbour in the move direction is None, the edge
\* ends here and the walk turns; then the test of the break
PlotEdges_Turn ==
    /\ edges_result = "none"
    /\ ~HasNeighbour(edge_direction, current_node, plot_coords)
    /\ ~HasNeighbour(move_direction, current_node, plot_coords)
    /\ edges' = PushEdge(edges, Edge(edge_start, current_node, edge_direction))
    /\ move_direction' = OuterTurn(move_direction)
    /\ edge_direction' = move_direction
    /\ edge_start' = current_node
    /\ edges_result' = IF current_node = start_node(plot_coords) /\ move_direction = "Up"
                       THEN "returned" ELSE "none"
    /\ UNCHANGED << other_than_day12, plot_coords, previous_node, current_node >>

NextEdges == PlotEdges_InnerCorner \/ PlotEdges_Advance \/ PlotEdges_Turn

SpecEdges == InitEdges /\ [][NextEdges]_vars

\* the loop of plot_edges does its next iteration
SpecEdgesFair == SpecEdges /\ WF_vars(NextEdges)

\* the cell before node along a side that faces direction
BeforeOnSide(direction, node) ==
    IF direction \in { "Up", "Down" }
    THEN NeighbourCell("Left", node)
    ELSE NeighbourCell("Up", node)

\* the cell has a piece of the plot's boundary on its side in direction
OnBoundary(direction, node, coords) ==
    node \in coords /\ ~HasNeighbour(direction, node, coords)

\* the straight sides of the plot's boundary that face direction, each given
\* by its first cell
SidesFacing(direction, coords) ==
    { node \in coords :
        /\ OnBoundary(direction, node, coords)
        /\ ~OnBoundary(direction, BeforeOnSide(direction, node), coords) }

\* the number of sides of the plot
NumberOfSides(coords) ==
    Cardinality(SidesFacing("Up", coords)) + Cardinality(SidesFacing("Down", coords))
        + Cardinality(SidesFacing("Left", coords)) + Cardinality(SidesFacing("Right", coords))

\* C24: for every plot, plot_edges returns, and the number of edges it
\* returns is the number of straight sides of the plot's boundary.
C24_EdgesAreSides ==
    /\ [](edges_result = "returned" => Len(edges) = NumberOfSides(plot_coords))
    /\ <>(edges_result = "returned")

====
